---- MODULE Spec2Model ----
(***************************************************************************)
(* Model of publisher/publisher.go: submission of a certificate to the     *)
(* configured Certificate Transparency logs (SubmitToCT), the transport    *)
(* helper (postJSON), the SCT decoder (UnmarshalJSON) and the signature    *)
(* validator (CheckSignature).                                             *)
(*                                                                         *)
(* Bytes are integers 0..255.  A base64 string is a sequence of alphabet   *)
(* indices 0..63, with B64Pad for '=' and B64Bad for a character outside   *)
(* the alphabet.  Errors are sequences of message strings, <<>> being nil; *)
(* a wrapped error carries its cause as the following element.  Durations  *)
(* are whole seconds.                                                      *)
(***************************************************************************)
EXTENDS Integers, Sequences, FiniteSets, TLC

\* ------------------------------------------------------------------ bounds
MaxLogs == 2
MaxRetries == 2
MaxTrail == 1
MaxBytes == 3

\* --------------------------------------------------------------- constants
sctHashSHA256 == 4
sctSigECDSA == 3
StatusOK == 200
StatusRequestTimeout == 408
StatusServiceUnavailable == 503

B64Pad == 64
B64Bad == 65

nil == <<>>

\* ------------------------------------------------------------------ base64
RECURSIVE EncodeToString(_)
EncodeToString(b) ==
  IF Len(b) = 0 THEN <<>>
  ELSE IF Len(b) = 1 THEN
    <<b[1] \div 4, (b[1] % 4) * 16, B64Pad, B64Pad>>
  ELSE IF Len(b) = 2 THEN
    <<b[1] \div 4, (b[1] % 4) * 16 + b[2] \div 16, (b[2] % 16) * 4, B64Pad>>
  ELSE
    <<b[1] \div 4, (b[1] % 4) * 16 + b[2] \div 16,
      (b[2] % 16) * 4 + b[3] \div 64, b[3] % 64>>
      \o EncodeToString(SubSeq(b, 4, Len(b)))

IsB64(c) == c \in 0..63

\* base64.StdEncoding.DecodeString: the bytes decoded before the first
\* corrupt quantum are returned together with the error.
RECURSIVE DecodeString(_)
DecodeString(s) ==
  IF Len(s) = 0 THEN [bytes |-> <<>>, err |-> FALSE]
  ELSE IF Len(s) < 4 THEN [bytes |-> <<>>, err |-> TRUE]
  ELSE
    LET rest == SubSeq(s, 5, Len(s))
        b1 == s[1] * 4 + s[2] \div 16
        b2 == (s[2] % 16) * 16 + s[3] \div 4
        b3 == (s[3] % 4) * 64 + s[4]
    IN IF IsB64(s[1]) /\ IsB64(s[2]) /\ IsB64(s[3]) /\ IsB64(s[4]) THEN
         LET r == DecodeString(rest)
         IN [bytes |-> <<b1, b2, b3>> \o r.bytes, err |-> r.err]
       ELSE IF IsB64(s[1]) /\ IsB64(s[2]) /\ IsB64(s[3]) /\ s[4] = B64Pad
               /\ Len(rest) = 0 THEN
         [bytes |-> <<b1, b2>>, err |-> FALSE]
       ELSE IF IsB64(s[1]) /\ IsB64(s[2]) /\ s[3] = B64Pad /\ s[4] = B64Pad
               /\ Len(rest) = 0 THEN
         [bytes |-> <<b1>>, err |-> FALSE]
       ELSE [bytes |-> <<>>, err |-> TRUE]

\* -------------------------------------------------------------------- asn1
\* One DER INTEGER (tag 2, short-form length) starting at offset off
\* (0-based) of b: the offset after it, or -1 on a parse error.
parseBigInt(b, off) ==
  IF off + 2 > Len(b) THEN -1
  ELSE IF b[off + 1] # 2 THEN -1
  ELSE IF b[off + 2] >= 128 THEN -1
  ELSE LET n == b[off + 2]
       IN IF off + 2 + n > Len(b) THEN -1
          ELSE IF n = 0 THEN -1
          ELSE IF n >= 2 /\ b[off + 3] = 0 /\ b[off + 4] < 128 THEN -1
          ELSE IF n >= 2 /\ b[off + 3] = 255 /\ b[off + 4] >= 128 THEN -1
          ELSE off + 2 + n

\* asn1.Unmarshal(b, &struct{R, S *big.Int}): the bytes left after the
\* SEQUENCE, or an error.  Bytes after S inside the SEQUENCE are allowed.
asn1Unmarshal(b) ==
  IF Len(b) < 2 THEN [rest |-> <<>>, err |-> TRUE]
  ELSE IF b[1] # 48 THEN [rest |-> <<>>, err |-> TRUE]
  ELSE IF b[2] >= 128 THEN [rest |-> <<>>, err |-> TRUE]
  ELSE LET n == b[2]
       IN IF 2 + n > Len(b) THEN [rest |-> <<>>, err |-> TRUE]
          ELSE LET inner == SubSeq(b, 3, 2 + n)
                   o1 == parseBigInt(inner, 0)
                   o2 == IF o1 < 0 THEN -1 ELSE parseBigInt(inner, o1)
               IN IF o2 < 0 THEN [rest |-> <<>>, err |-> TRUE]
                  ELSE [rest |-> SubSeq(b, 3 + n, Len(b)), err |-> FALSE]

\* ---------------------------------------------------------- CheckSignature
\* CheckSignature comparing only the hash tag
CheckSignatureAnySigAlg(sct) ==
  IF Len(sct.Signature) < 4 THEN <<"SCT signature is truncated">>
  ELSE IF sct.Signature[1] # sctHashSHA256 THEN
    <<"Unsupported SCT hash function">>
  ELSE LET r == asn1Unmarshal(SubSeq(sct.Signature, 5, Len(sct.Signature)))
       IN IF r.err THEN <<"Failed to parse SCT signature">>
          ELSE IF Len(r.rest) > 0 THEN <<"Trailing garbage after signature">>
          ELSE nil

\* CheckSignature reading the signature right after the two tags
CheckSignatureNoSkip(sct) ==
  IF Len(sct.Signature) < 4 THEN <<"SCT signature is truncated">>
  ELSE IF sct.Signature[1] # sctHashSHA256 THEN
    <<"Unsupported SCT hash function">>
  ELSE IF sct.Signature[2] # sctSigECDSA THEN
    <<"Unsupported SCT signature algorithm">>
  ELSE LET r == asn1Unmarshal(SubSeq(sct.Signature, 3, Len(sct.Signature)))
       IN IF r.err THEN <<"Failed to parse SCT signature">>
          ELSE IF Len(r.rest) > 0 THEN <<"Trailing garbage after signature">>
          ELSE nil

CheckSignature(sct) ==
  IF Len(sct.Signature) < 4 THEN <<"SCT signature is truncated">>
  ELSE IF sct.Signature[1] # sctHashSHA256 THEN
    <<"Unsupported SCT hash function">>
  ELSE IF sct.Signature[2] # sctSigECDSA THEN
    <<"Unsupported SCT signature algorithm">>
  ELSE LET r == asn1Unmarshal(SubSeq(sct.Signature, 5, Len(sct.Signature)))
       IN IF r.err THEN <<"Failed to parse SCT signature">>
          ELSE IF Len(r.rest) > 0 THEN <<"Trailing garbage after signature">>
          ELSE nil

\* ----------------------------------------------------------- UnmarshalJSON
\* The zero value of signedCertificateTimestamp.
ZeroSCT ==
  [SCTVersion |-> 0, LogID |-> <<>>, Timestamp |-> 0,
   Extensions |-> <<>>, Signature |-> <<>>]

\* UnmarshalJSON decoding the extensions from the signature string
UnmarshalJSONExtFromSig(sct, data) ==
  IF data.json # "object" THEN
    [sct |-> sct, err |-> <<"Failed to unmarshal SCT reciept">>]
  ELSE
    LET id == DecodeString(data.raw.LogID)
        s1 == [sct EXCEPT !.LogID = id.bytes]
        sig == DecodeString(data.raw.Signature)
        s2 == [s1 EXCEPT !.Signature = sig.bytes]
        ext == DecodeString(data.raw.Signature)
        s3 == [s2 EXCEPT !.Extensions = ext.bytes]
    IN IF id.err THEN [sct |-> s1, err |-> <<"Failed to decode log ID">>]
       ELSE IF sig.err THEN
         [sct |-> s2, err |-> <<"Failed to decode SCT signature">>]
       ELSE IF ext.err THEN
         [sct |-> s3, err |-> <<"Failed to decode SCT extensions">>]
       ELSE [sct |-> [s3 EXCEPT !.SCTVersion = data.raw.Version,
                                !.Timestamp = data.raw.Timestamp],
             err |-> nil]

\* A response body is [json, raw]: json is "invalid" (not JSON at all),
\* "mismatch" (JSON whose shape does not fit rawSignedCertificateTimestamp)
\* or "object"; raw holds the wire fields.
UnmarshalJSON(sct, data) ==
  IF data.json # "object" THEN
    [sct |-> sct, err |-> <<"Failed to unmarshal SCT reciept">>]
  ELSE
    LET id == DecodeString(data.raw.LogID)
        s1 == [sct EXCEPT !.LogID = id.bytes]
        sig == DecodeString(data.raw.Signature)
        s2 == [s1 EXCEPT !.Signature = sig.bytes]
        ext == DecodeString(data.raw.Extensions)
        s3 == [s2 EXCEPT !.Extensions = ext.bytes]
    IN IF id.err THEN [sct |-> s1, err |-> <<"Failed to decode log ID">>]
       ELSE IF sig.err THEN
         [sct |-> s2, err |-> <<"Failed to decode SCT signature">>]
       ELSE IF ext.err THEN
         [sct |-> s3, err |-> <<"Failed to decode SCT extensions">>]
       ELSE [sct |-> [s3 EXCEPT !.SCTVersion = data.raw.Version,
                                !.Timestamp = data.raw.Timestamp],
             err |-> nil]

\* ------------------------------------------------------------ strconv.Atoi
DigitVal(c) ==
  CASE c = "0" -> 0 [] c = "1" -> 1 [] c = "2" -> 2 [] c = "3" -> 3
    [] c = "4" -> 4 [] c = "5" -> 5 [] c = "6" -> 6 [] c = "7" -> 7
    [] c = "8" -> 8 [] c = "9" -> 9 [] OTHER -> -1

RECURSIVE ParseDigits(_, _)
ParseDigits(s, acc) ==
  IF Len(s) = 0 THEN acc
  ELSE IF DigitVal(s[1]) < 0 THEN -1
  ELSE ParseDigits(Tail(s), acc * 10 + DigitVal(s[1]))

\* strconv.Atoi on a string given as a sequence of characters: the value is
\* 0 when the syntax is wrong.  (A value outside the int range does not
\* occur for the short strings of RetryAfterValues.)
Atoi(s) ==
  LET neg == Len(s) > 0 /\ s[1] = "-"
      body == IF Len(s) > 0 /\ s[1] \in {"-", "+"} THEN Tail(s) ELSE s
      v == IF Len(body) = 0 THEN -1 ELSE ParseDigits(body, 0)
  IN IF v < 0 THEN [val |-> 0, err |-> TRUE]
     ELSE [val |-> IF neg THEN 0 - v ELSE v, err |-> FALSE]

\* ----------------------------------------------------------- configuration
BadURI == ":bad"
\* The k-th configured log has its own URI, or one http.NewRequest rejects.
LogURI == <<"ct1", "ct2", "ct3", "ct4">>
URIs == {LogURI[k] : k \in 1..Len(LogURI)} \cup {BadURI}
Backoffs == {10}
Certs == {<<48, 1>>}
Issuers == {<<48, 2, 255>>}

SeqsUpTo(S, n) == UNION {[1..k -> S] : k \in 0..n}

\* CTConfig after NewPublisherAuthorityImpl; NoCT is the nil pointer.
NoCT == [absent |-> TRUE]
LogLists ==
  {l \in SeqsUpTo(URIs, MaxLogs) :
     \A k \in 1..Len(l) : l[k] \in {LogURI[k], BadURI}}

CTConfigs ==
  [Logs : LogLists, SubmissionRetries : 0..MaxRetries,
   SubmissionBackoff : Backoffs, IssuerDER : Issuers]

\* ------------------------------------------------------- what the logs send
SigValid == <<4, 3, 0, 8, 48, 6, 2, 1, 1, 2, 1, 2>>
SigTrailing == SigValid \o <<0>>
B64Malformed == <<1, 2, B64Bad, 3>>

ZeroRaw ==
  [Version |-> 0, LogID |-> <<>>, Timestamp |-> 0, Signature |-> <<>>,
   Extensions |-> <<>>]

RawSCTs ==
  [Version : {0}, LogID : {EncodeToString(<<7>>), B64Malformed},
   Timestamp : {1},
   Signature : {EncodeToString(SigValid), EncodeToString(SigTrailing),
                B64Malformed},
   Extensions : {<<>>}]

Bodies ==
  {[json |-> "invalid", raw |-> ZeroRaw], [json |-> "mismatch", raw |-> ZeroRaw]}
    \cup {[json |-> "object", raw |-> r] : r \in RawSCTs}

\* Retry-After headers: absent, seconds, negative seconds, not a number.
RetryAfterValues ==
  {<<>>, <<"5">>, <<"1", "2">>, <<"-", "5">>, <<"x">>, <<"5", "x">>}

Statuses == {StatusOK, StatusRequestTimeout, StatusServiceUnavailable, 451}

\* What one request meets on the network: client.Do fails, reading the body
\* fails, or a whole response arrives.
NetOutcomes ==
  {[kind |-> "doErr"], [kind |-> "readErr"]}
    \cup [kind : {"resp"}, StatusCode : Statuses,
          RetryAfter : RetryAfterValues, body : Bodies]

\* ---------------------------------------------------------------- postJSON
NoResp == [StatusCode |-> 0, RetryAfter |-> <<>>]

\* jsonUnmarshal leaving an SCT that already has a signature as it is
jsonUnmarshalKeepsFilled(sct, body) ==
  IF body.json = "invalid" THEN [sct |-> sct, err |-> <<"invalid JSON">>]
  ELSE IF sct.Signature # <<>> THEN [sct |-> sct, err |-> nil]
  ELSE UnmarshalJSON(sct, body)

\* json.Unmarshal(body, respObj) with respObj a *signedCertificateTimestamp.
jsonUnmarshal(sct, body) ==
  IF body.json = "invalid" THEN [sct |-> sct, err |-> <<"invalid JSON">>]
  ELSE UnmarshalJSON(sct, body)

\* postJSON without the check of the decoding error
postJSONUnchecked(uri, net, sct) ==
  IF uri = BadURI THEN
    [resp |-> NoResp, err |-> <<"Creating request failed">>, sct |-> sct]
  ELSE IF net.kind = "doErr" THEN
    [resp |-> NoResp, err |-> <<"Request failed">>, sct |-> sct]
  ELSE IF net.kind = "readErr" THEN
    [resp |-> NoResp, err |-> <<"Failed to read response body">>, sct |-> sct]
  ELSE [resp |-> [StatusCode |-> net.StatusCode,
                  RetryAfter |-> net.RetryAfter],
        err |-> nil, sct |-> jsonUnmarshal(sct, net.body).sct]

postJSON(uri, net, sct) ==
  IF uri = BadURI THEN
    [resp |-> NoResp, err |-> <<"Creating request failed">>, sct |-> sct]
  ELSE IF net.kind = "doErr" THEN
    [resp |-> NoResp, err |-> <<"Request failed">>, sct |-> sct]
  ELSE IF net.kind = "readErr" THEN
    [resp |-> NoResp, err |-> <<"Failed to read response body">>, sct |-> sct]
  ELSE LET u == jsonUnmarshal(sct, net.body)
       IN IF u.err # nil THEN
            [resp |-> NoResp,
             err |-> <<"Failed to unmarshal SCT reciept">> \o u.err,
             sct |-> u.sct]
          ELSE [resp |-> [StatusCode |-> net.StatusCode,
                          RetryAfter |-> net.RetryAfter],
                err |-> nil, sct |-> u.sct]

\* json.Marshal(ctSubmissionRequest{Chain: ...}): the chain of the two
\* base64 strings, in order.
jsonMarshal(chain) == [chain |-> chain]

\* ------------------------------------------------------------------- state
VARIABLES
  args,            \* arguments of a constructor or decoder call, else NoArgs
  CT,              \* pub.CT: a CTConfig, or NoCT
  cert,            \* cert.Raw of the certificate being submitted
  pc,              \* position of the SubmitToCT call
  jsonSubmission,  \* the serialized payload
  i,               \* index of ctLog in pub.CT.Logs (0 before the first)
  done, retries, sct, resp, err,   \* locals of the per-log loop
  sleeping,        \* argument of the time.Sleep in progress
  ret,             \* the returned error (nil for success) once pc = "returned"
  trace,           \* history: the requests sent and the sleeps done
  wire,            \* history: what the last request met, until the next turn
  onlyTransport,   \* history: every request to this log met a transport error
  accepted         \* history: logs that answered 200 with a valid SCT

vars ==
  <<args, CT, cert, pc, jsonSubmission, i, done, retries, sct, resp, err, sleeping,
    ret, trace, wire, onlyTransport, accepted>>

NoArgs == [none |-> TRUE]

NoWire ==
  [kind |-> "none", StatusCode |-> 0, RetryAfter |-> <<>>, decoded |-> FALSE,
   sct |-> ZeroSCT, sig |-> nil,
   stale |-> FALSE]

TransportKinds == {"buildErr", "doErr", "readErr"}

\* The locals and the history before SubmitToCT is entered.
Fresh ==
  /\ jsonSubmission = jsonMarshal(<<>>)
  /\ i = 0
  /\ done = FALSE
  /\ retries = 0
  /\ sct = ZeroSCT
  /\ resp = NoResp
  /\ err = nil
  /\ sleeping = 0
  /\ ret = nil
  /\ trace = <<>>
  /\ wire = NoWire
  /\ onlyTransport = TRUE
  /\ accepted = {}

Init ==
  /\ args = NoArgs
  /\ CT \in CTConfigs \cup {NoCT}
  /\ cert \in Certs
  /\ pc = "start"
  /\ jsonSubmission = jsonMarshal(<<>>)
  /\ i = 0
  /\ done = FALSE
  /\ retries = 0
  /\ sct = ZeroSCT
  /\ resp = NoResp
  /\ err = nil
  /\ sleeping = 0
  /\ ret = nil
  /\ trace = <<>>
  /\ wire = NoWire
  /\ onlyTransport = TRUE
  /\ accepted = {}

\* ------------------------------------------------------------- SubmitToCT
\* Line 199: the result after the last log.
ReturnAfterRangeErr == <<"Unable to submit certificate">>
ReturnAfterRange == nil

\* Enter with the issuer put first in the chain
EnterIssuerFirst ==
  /\ pc = "start"
  /\ IF CT = NoCT
       THEN /\ pc' = "returned"
            /\ ret' = nil
            /\ UNCHANGED jsonSubmission
       ELSE /\ pc' = "range"
            /\ jsonSubmission' =
                 jsonMarshal(<<EncodeToString(CT.IssuerDER), EncodeToString(cert)>>)
            /\ UNCHANGED ret
  /\ UNCHANGED <<args, CT, cert, i, done, retries, sct, resp, err, sleeping,
                 trace, wire, onlyTransport, accepted>>

\* Lines 125-135: the nil check and the payload.
Enter ==
  /\ pc = "start"
  /\ IF CT = NoCT
       THEN /\ pc' = "returned"
            /\ ret' = nil
            /\ UNCHANGED jsonSubmission
       ELSE /\ pc' = "range"
            /\ jsonSubmission' =
                 jsonMarshal(<<EncodeToString(cert), EncodeToString(CT.IssuerDER)>>)
            /\ UNCHANGED ret
  /\ UNCHANGED <<args, CT, cert, i, done, retries, sct, resp, err, sleeping,
                 trace,                 wire, onlyTransport, accepted>>

\* NextLog with retries declared outside the range
NextLogKeepsRetries ==
  /\ pc = "range"
  /\ IF i >= Len(CT.Logs)
       THEN /\ pc' = "returned"
            /\ ret' = ReturnAfterRange
            /\ UNCHANGED <<i, done, retries, sct, resp, err, wire,
                           onlyTransport>>
       ELSE /\ i' = i + 1
            /\ done' = FALSE
            /\ sct' = ZeroSCT
            /\ resp' = NoResp
            /\ err' = nil
            /\ wire' = NoWire
            /\ onlyTransport' = TRUE
            /\ pc' = "loop"
            /\ UNCHANGED <<ret, retries>>
  /\ UNCHANGED <<args, CT, cert, jsonSubmission, sleeping, trace, accepted>>

\* Lines 136-139 and 199: the next ctLog of the range, or the final return.
NextLog ==
  /\ pc = "range"
  /\ IF i >= Len(CT.Logs)
       THEN /\ pc' = "returned"
            /\ ret' = ReturnAfterRange
            /\ UNCHANGED <<i, done, retries, sct, resp, err, wire,
                           onlyTransport>>
       ELSE /\ i' = i + 1
            /\ done' = FALSE
            /\ retries' = 0
            /\ sct' = ZeroSCT
            /\ resp' = NoResp
            /\ err' = nil
            /\ wire' = NoWire
            /\ onlyTransport' = TRUE
            /\ pc' = "loop"
            /\ UNCHANGED ret
  /\ UNCHANGED <<args, CT, cert, jsonSubmission, sleeping, trace, accepted>>

\* What a request met, for the history: the kind of outcome, the status on
\* the wire, whether the body decodes into a fresh SCT and what
\* CheckSignature says of that SCT; stale tells that the SCT the body was
\* decoded into (line 139) held something else from an earlier response.
FreshDecode == [b \in Bodies |-> jsonUnmarshal(ZeroSCT, b)]

WireOf(uri, net) ==
  IF uri = BadURI THEN [NoWire EXCEPT !.kind = "buildErr"]
  ELSE IF net.kind # "resp" THEN [NoWire EXCEPT !.kind = net.kind]
  ELSE LET u == FreshDecode[net.body]
       IN [kind |-> "resp", StatusCode |-> net.StatusCode,
           RetryAfter |-> net.RetryAfter,
           decoded |-> u.err = nil,
           sct |-> IF u.err = nil THEN u.sct ELSE ZeroSCT,
           sig |-> IF u.err = nil THEN CheckSignature(u.sct) ELSE nil,
           stale |-> FALSE]

Accepts(w) ==
  w.kind = "resp" /\ w.StatusCode = StatusOK /\ w.decoded /\ w.sig = nil

\* Line 140: the loop condition.
LoopCond(d, r, n) == ~d /\ r <= n

\* Lines 146 and 162: no retry is left.
BudgetExhaustedLate(r, n) == r > n
BudgetExhaustedEarly(r, n) == r + 1 >= n
BudgetExhausted(r, n) == r >= n

\* Lines 149 and 165: one retry is used.
NextRetriesStuck(r) == r
NextRetries(r) == r + 1

\* Line 153: the statuses that are retried.
IsRetryableStatusWide(code) == code >= StatusRequestTimeout
IsRetryableStatus(code) ==
  code = StatusRequestTimeout \/ code = StatusServiceUnavailable

\* Lines 156-161: the wait after a 408 or 503.
RetryBackoff(r, configured) ==
  IF r.RetryAfter # <<>> /\ Atoi(r.RetryAfter).err
    THEN Atoi(r.RetryAfter).val
    ELSE configured

\* Line 168: a status that ends the submission to this log.
IsUnexpectedStatusNever(code) == FALSE
IsUnexpectedStatus(code) == code # StatusOK

\* Lines 140-178: one turn of the retry loop, up to the Sleep, the break or
\* done = true.
Attempt(net) ==
  /\ pc = "loop"
  /\ IF ~LoopCond(done, retries, CT.SubmissionRetries)
       THEN /\ pc' = "afterLoop"
            /\ UNCHANGED <<done, retries, sct, resp, err, sleeping, trace,
                           wire, onlyTransport, accepted>>
       ELSE
         LET uri == CT.Logs[i]
             p == postJSON(uri, net, sct)
             w == WireOf(uri, net)
         IN /\ sct' = p.sct
            /\ resp' = p.resp
            /\ err' = p.err
            /\ trace' = Append(trace, [op |-> "post", log |-> i, uri |-> uri,
                                       data |-> jsonSubmission])
            /\ wire' = [w EXCEPT !.stale = (sct # ZeroSCT /\ sct # w.sct)]
            /\ onlyTransport' = (onlyTransport /\ w.kind \in TransportKinds)
            /\ accepted' = IF Accepts(w) THEN accepted \cup {i} ELSE accepted
            /\ IF p.err # nil \/ IsRetryableStatus(p.resp.StatusCode)
                 THEN IF BudgetExhausted(retries, CT.SubmissionRetries)
                        THEN /\ pc' = "afterLoop"
                             /\ UNCHANGED <<done, retries, sleeping>>
                        ELSE /\ retries' = NextRetries(retries)
                             /\ sleeping' =
                                  IF p.err # nil THEN CT.SubmissionBackoff
                                  ELSE RetryBackoff(p.resp, CT.SubmissionBackoff)
                             /\ pc' = "sleep"
                             /\ UNCHANGED done
                 ELSE /\ done' = ~IsUnexpectedStatus(p.resp.StatusCode)
                      /\ pc' = "afterLoop"
                      /\ UNCHANGED <<retries, sleeping>>
  /\ UNCHANGED <<args, CT, cert, jsonSubmission, i, ret>>

\* Sleep storing the wait it used in the shared configuration
SleepWritesConfig ==
  /\ pc = "sleep"
  /\ trace' = Append(trace, [op |-> "sleep", log |-> i, uri |-> CT.Logs[i],
                             data |-> jsonSubmission])
  /\ CT' = [CT EXCEPT !.SubmissionBackoff = sleeping]
  /\ resp' = NoResp
  /\ err' = nil
  /\ sleeping' = 0
  /\ wire' = NoWire
  /\ pc' = "loop"
  /\ UNCHANGED <<args, cert, jsonSubmission, i, done, retries, sct,
                 ret, onlyTransport, accepted>>

\* Lines 150 and 166: time.Sleep returns and the loop continues; resp and
\* err are scoped to one turn of the loop.
Sleep ==
  /\ pc = "sleep"
  /\ trace' = Append(trace, [op |-> "sleep", log |-> i, uri |-> CT.Logs[i],
                             data |-> jsonSubmission])
  /\ resp' = NoResp
  /\ err' = nil
  /\ sleeping' = 0
  /\ wire' = NoWire
  /\ pc' = "loop"
  /\ UNCHANGED <<args, CT, cert, jsonSubmission, i, done, retries, sct,
                 ret,                  onlyTransport, accepted>>

\* Line 180: the loop was left without done.
LogFailedNever(d) == FALSE
LogFailed(d) == ~d

\* Line 185: the SCT is rejected.
SignatureRejectedNever(e) == FALSE
SignatureRejected(e) == e # nil

\* Lines 180-197: after the loop, the failure return or CheckSignature.
AfterLoop ==
  /\ pc = "afterLoop"
  /\ IF LogFailed(done)
       THEN /\ ret' = <<"Unable to submit certificate">>
            /\ pc' = "returned"
       ELSE IF SignatureRejected(CheckSignature(sct))
         THEN /\ ret' = CheckSignature(sct)
              /\ pc' = "returned"
         ELSE /\ pc' = "range"
              /\ UNCHANGED ret
  /\ UNCHANGED <<args, CT, cert, jsonSubmission, i, done, retries, sct, resp,
                 err, sleeping, trace, wire, onlyTransport, accepted>>

Next ==
  \/ Enter
  \/ NextLog
  \/ \E net \in NetOutcomes : Attempt(net)
  \/ Sleep
  \/ AfterLoop

Spec == Init /\ [][Next]_vars

\* One outcome of each kind the loop tells apart: transport errors, an
\* undecodable body, 408 and 503 with and without Retry-After, an
\* unexpected status, and 200 with an accepted and with a rejected SCT.
TermNet ==
  {net \in NetOutcomes :
     \/ net.kind # "resp"
     \/ /\ net.body.json = "invalid"
        /\ net.StatusCode = StatusOK
        /\ net.RetryAfter = <<>>
     \/ /\ net.body.json = "object"
        /\ net.body.raw.LogID = EncodeToString(<<7>>)
        /\ \/ /\ net.StatusCode \in {StatusOK, 451}
              /\ net.RetryAfter = <<>>
              /\ net.body.raw.Signature
                   \in {EncodeToString(SigValid), EncodeToString(SigTrailing)}
           \/ /\ net.StatusCode = StatusRequestTimeout
              /\ net.RetryAfter \in {<<>>, <<"5">>}
              /\ net.body.raw.Signature = EncodeToString(SigValid)
           \/ /\ net.StatusCode = StatusServiceUnavailable
              /\ net.RetryAfter \in {<<"x">>}
              /\ net.body.raw.Signature \in {EncodeToString(SigValid), B64Malformed}}

NextTerm ==
  \/ Enter
  \/ NextLog
  \/ \E net \in TermNet : Attempt(net)
  \/ Sleep
  \/ AfterLoop

\* Every request returns and every sleep ends, so a call that can take a
\* step takes it.
FairSpec == Init /\ [][NextTerm]_vars /\ WF_vars(NextTerm)

\* ------------------------------------------- CheckSignature on its own
\* Contents of a DER INTEGER: well-formed ones, and an empty and two
\* non-minimal ones.
GoodInts == {<<0>>, <<1>>, <<128>>, <<0, 128>>}
BadInts == {<<>>, <<0, 1>>, <<255, 128>>}

DERInt(v) == <<2, Len(v)>> \o v

\* SEQUENCE { INTEGER r, INTEGER s } followed inside the SEQUENCE by pad.
DERSeq(r, s, pad) ==
  <<48, Len(DERInt(r)) + Len(DERInt(s)) + Len(pad)>>
    \o DERInt(r) \o DERInt(s) \o pad

Zeros(n) == [k \in 1..n |-> 0]
Trails == {Zeros(n) : n \in 0..MaxTrail}

\* What asn1.Unmarshal accepts without a rest: two well-formed integers,
\* possibly with more bytes inside the SEQUENCE.
ParsableDER ==
  {DERSeq(r, s, pad) : r \in GoodInts, s \in GoodInts, pad \in Trails}

\* The same with a wrong tag, a missing last byte, a malformed integer or
\* a declared length beyond the end.
BrokenDER ==
  {[d EXCEPT ![1] = 49] : d \in ParsableDER}
    \cup {SubSeq(d, 1, Len(d) - 1) : d \in ParsableDER}
    \cup {DERSeq(r, s, <<>>) : r \in BadInts, s \in GoodInts}
    \cup {DERSeq(r, s, <<>>) : r \in GoodInts, s \in BadInts}
    \cup {[d EXCEPT ![2] = d[2] + 100] : d \in ParsableDER}
    \cup {<<>>, <<48>>}

HashTags == {sctHashSHA256, 0, 5}
SigTags == {sctSigECDSA, 1, 4}
LenPairs == {<<0, 0>>, <<0, 8>>, <<255, 255>>}

SigInputs ==
  SeqsUpTo(HashTags \cup SigTags, 3)
    \cup {<<h, a>> \o l \o d \o t :
            h \in HashTags, a \in SigTags, l \in LenPairs,
            d \in ParsableDER \cup BrokenDER, t \in Trails}

InitSig ==
  /\ args = NoArgs
  /\ CT = NoCT
  /\ cert = <<>>
  /\ pc = "sig"
  /\ jsonSubmission = jsonMarshal(<<>>)
  /\ i = 0
  /\ done = FALSE
  /\ retries = 0
  /\ sct \in {[ZeroSCT EXCEPT !.Signature = g] : g \in SigInputs}
  /\ resp = NoResp
  /\ err = nil
  /\ sleeping = 0
  /\ ret = nil
  /\ trace = <<>>
  /\ wire = NoWire
  /\ onlyTransport = TRUE
  /\ accepted = {}

\* Lines 231-258: one call of sct.CheckSignature().
CheckSig ==
  /\ pc = "sig"
  /\ ret' = CheckSignature(sct)
  /\ pc' = "sigDone"
  /\ UNCHANGED <<args, CT, cert, jsonSubmission, i, done, retries, sct, resp,
                 err, sleeping, trace, wire, onlyTransport, accepted>>

NextSig == CheckSig

SpecSig == InitSig /\ [][NextSig]_vars

\* ------------------------------------------------- SubmitToCT, any payload
\* Certificates and issuers of every length up to MaxBytes, two logs, one
\* retry; the logs fail at the transport or accept.
CertBytes == {0, 165, 255}
IssuerBytes == {1, 254}

PayloadConfigs ==
  [Logs : {<<LogURI[1], LogURI[2]>>}, SubmissionRetries : {1},
   SubmissionBackoff : Backoffs, IssuerDER : SeqsUpTo(IssuerBytes, MaxBytes)]

PayloadNet ==
  {[kind |-> "doErr"],
   [kind |-> "resp", StatusCode |-> StatusOK, RetryAfter |-> <<>>,
    body |-> [json |-> "object",
              raw |-> [Version |-> 0, LogID |-> EncodeToString(<<7>>),
                       Timestamp |-> 1,
                       Signature |-> EncodeToString(SigValid),
                       Extensions |-> <<>>]]]}

InitPayload ==
  /\ args = NoArgs
  /\ CT \in PayloadConfigs
  /\ cert \in SeqsUpTo(CertBytes, MaxBytes)
  /\ pc = "start"
  /\ Fresh

NextPayload ==
  \/ Enter
  \/ NextLog
  \/ \E net \in PayloadNet : Attempt(net)
  \/ Sleep
  \/ AfterLoop

SpecPayload == InitPayload /\ [][NextPayload]_vars

\* ----------------------------------------------- NewPublisherAuthorityImpl
IsDigit(c) == DigitVal(c) >= 0

RECURSIVE LeadingDigits(_)
LeadingDigits(s) ==
  IF Len(s) = 0 \/ ~IsDigit(s[1]) THEN 0 ELSE 1 + LeadingDigits(Tail(s))

RECURSIVE UnitLen(_)
UnitLen(s) ==
  IF Len(s) = 0 \/ IsDigit(s[1]) THEN 0 ELSE 1 + UnitLen(Tail(s))

\* Seconds in a unit; -1 for an unknown unit.  (Units below the second and
\* fractions are not among DurationStrings.)
UnitSeconds(u) ==
  CASE u = <<"s">> -> 1 [] u = <<"m">> -> 60 [] u = <<"h">> -> 3600
    [] OTHER -> -1

RECURSIVE ParseGroups(_, _)
ParseGroups(s, acc) ==
  IF Len(s) = 0 THEN [val |-> acc, err |-> FALSE]
  ELSE LET nd == LeadingDigits(s)
           rest == SubSeq(s, nd + 1, Len(s))
           ul == UnitLen(rest)
           secs == UnitSeconds(SubSeq(rest, 1, ul))
       IN IF nd = 0 \/ ul = 0 \/ secs < 0 THEN [val |-> 0, err |-> TRUE]
          ELSE ParseGroups(SubSeq(rest, ul + 1, Len(rest)),
                           acc + ParseDigits(SubSeq(s, 1, nd), 0) * secs)

\* time.ParseDuration on a string given as a sequence of characters:
\* [-+]?(digits unit)+, or "0".
ParseDuration(s) ==
  LET neg == Len(s) > 0 /\ s[1] = "-"
      body == IF Len(s) > 0 /\ s[1] \in {"-", "+"} THEN Tail(s) ELSE s
      g == ParseGroups(body, 0)
  IN IF body = <<"0">> THEN [val |-> 0, err |-> FALSE]
     ELSE IF Len(body) = 0 \/ g.err THEN [val |-> 0, err |-> TRUE]
     ELSE [val |-> IF neg THEN 0 - g.val ELSE g.val, err |-> FALSE]

\* Backoff strings with the duration they denote in seconds, and strings
\* that denote none.
GoodDurations ==
  {[str |-> <<"1", "0", "s">>, secs |-> 10], [str |-> <<"1", "m">>, secs |-> 60],
   [str |-> <<"0">>, secs |-> 0], [str |-> <<"-", "5", "s">>, secs |-> 0 - 5],
   [str |-> <<"1", "m", "5", "s">>, secs |-> 65]}
BadDurations == {<<>>, <<"1", "0">>, <<"x">>, <<"5", "x">>, <<"s">>}
DurationStrings == {g.str : g \in GoodDurations} \cup BadDurations

\* A CTConfig as loaded from JSON: the two fields tagged json:"-" are zero.
RawConfigs ==
  [Logs : {<<>>, <<LogURI[1]>>}, SubmissionRetries : {0, 1},
   SubmissionBackoffString : DurationStrings, SubmissionBackoff : {0},
   IssuerDER : {<<>>}]

NewIssuers == {<<>>, <<48, 2, 255>>}

\* NewPublisherAuthorityImpl going on after a failed ParseDuration
NewPublisherAuthorityImplUnchecked(ctConfig, issuerDER) ==
  IF ctConfig = NoCT THEN [ok |-> TRUE, CT |-> NoCT, err |-> nil]
  ELSE LET c1 == [ctConfig EXCEPT !.IssuerDER = issuerDER]
           d == ParseDuration(ctConfig.SubmissionBackoffString)
       IN [ok |-> TRUE, CT |-> [c1 EXCEPT !.SubmissionBackoff = d.val],
           err |-> nil]

\* Lines 102-120.  pub.CT and ctConfig are one object: CT is its value when
\* the constructor returns, instance or not.
NewPublisherAuthorityImpl(ctConfig, issuerDER) ==
  IF ctConfig = NoCT THEN [ok |-> TRUE, CT |-> NoCT, err |-> nil]
  ELSE LET c1 == [ctConfig EXCEPT !.IssuerDER = issuerDER]
           d == ParseDuration(ctConfig.SubmissionBackoffString)
       IN IF d.err THEN [ok |-> FALSE, CT |-> c1, err |-> <<"invalid duration">>]
          ELSE [ok |-> TRUE, CT |-> [c1 EXCEPT !.SubmissionBackoff = d.val],
                err |-> nil]

InitNew ==
  /\ args \in [ctConfig : RawConfigs \cup {NoCT}, issuerDER : NewIssuers]
  /\ CT = NoCT
  /\ cert \in Certs
  /\ pc = "new"
  /\ Fresh

\* The constructor call: the instance's CT, or the error and no instance.
New ==
  /\ pc = "new"
  /\ LET r == NewPublisherAuthorityImpl(args.ctConfig, args.issuerDER)
     IN /\ args' = [args EXCEPT !.ctConfig = r.CT]
        /\ IF r.ok
             THEN /\ CT' = r.CT
                  /\ pc' = "start"
                  /\ UNCHANGED ret
             ELSE /\ pc' = "newFailed"
                  /\ ret' = r.err
                  /\ UNCHANGED CT
  /\ UNCHANGED <<cert, jsonSubmission, i, done, retries, sct, resp, err,
                 sleeping, trace, wire, onlyTransport, accepted>>

NextNew ==
  \/ New
  \/ Enter
  \/ NextLog
  \/ \E net \in TermNet : Attempt(net)
  \/ Sleep
  \/ AfterLoop

SpecNew == InitNew /\ [][NextNew]_vars

\* -------------------------------------------- UnmarshalJSON on its own
\* Byte strings of every padding case, their base64 forms, one base64
\* string with unused bits set (it decodes to <<65>>), and malformed ones:
\* a character outside the alphabet, a length that is no multiple of 4,
\* padding in the middle.
ByteSamples ==
  {<<>>, <<7>>, <<255, 0>>, <<1, 2, 3>>, <<250, 251, 252, 253>>}
LooseB64 == <<16, 17, B64Pad, B64Pad>>
MalformedB64 == {B64Malformed, <<1, 2, 3>>, <<1, B64Pad, 2, 3>>}
WireStrings ==
  {EncodeToString(b) : b \in ByteSamples} \cup {LooseB64} \cup MalformedB64

DecodeBodies ==
  {[json |-> "invalid", raw |-> ZeroRaw], [json |-> "mismatch", raw |-> ZeroRaw]}
    \cup {[json |-> "object", raw |-> r] :
            r \in [Version : {0, 1}, LogID : WireStrings, Timestamp : {0, 5},
                   Signature : WireStrings, Extensions : WireStrings]}

\* An SCT already filled by an earlier decoding.
PriorSCT ==
  [SCTVersion |-> 1, LogID |-> <<9>>, Timestamp |-> 9, Extensions |-> <<9>>,
   Signature |-> SigTrailing]

InitDecode ==
  /\ args \in [data : DecodeBodies]
  /\ CT = NoCT
  /\ cert = <<>>
  /\ pc = "decode"
  /\ jsonSubmission = jsonMarshal(<<>>)
  /\ i = 0
  /\ done = FALSE
  /\ retries = 0
  /\ sct \in {ZeroSCT, PriorSCT}
  /\ resp = NoResp
  /\ err = nil
  /\ sleeping = 0
  /\ ret = nil
  /\ trace = <<>>
  /\ wire = NoWire
  /\ onlyTransport = TRUE
  /\ accepted = {}

\* Lines 62-84: one call of sct.UnmarshalJSON(data).
Decode ==
  /\ pc = "decode"
  /\ sct' = UnmarshalJSON(sct, args.data).sct
  /\ err' = UnmarshalJSON(sct, args.data).err
  /\ pc' = "decoded"
  /\ UNCHANGED <<args, CT, cert, jsonSubmission, i, done, retries, resp,
                 sleeping, ret, trace, wire, onlyTransport, accepted>>

NextDecode == Decode

SpecDecode == InitDecode /\ [][NextDecode]_vars

\* ----------------------------------------------------------------- history
Configured == CT # NoCT
NumLogs == IF Configured THEN Len(CT.Logs) ELSE 0
N == IF Configured THEN CT.SubmissionRetries ELSE 0

Count(op, k) ==
  Cardinality({j \in 1..Len(trace) : trace[j].op = op /\ trace[j].log = k})
Posts(k) == Count("post", k)
TotalPosts ==
  Cardinality({j \in 1..Len(trace) : trace[j].op = "post"})
Sleeps(k) == Count("sleep", k)

EventsOf(k) == SelectSeq(trace, LAMBDA e : e.log = k)

\* post, sleep, post, ..., post
Alternates(s) ==
  /\ Len(s) % 2 = 1
  /\ \A j \in 1..Len(s) : s[j].op = (IF j % 2 = 1 THEN "post" ELSE "sleep")

LastIsPostOf(k) ==
  /\ Len(trace) > 0
  /\ trace[Len(trace)].op = "post"
  /\ trace[Len(trace)].log = k

Returned == pc = "returned"
Failed == Returned /\ ret # nil

\* What the claims call a retryable failure on the wire.
RetryableWire ==
  \/ wire.kind \in TransportKinds
  \/ wire.kind = "resp"
       /\ wire.StatusCode \in {StatusRequestTimeout, StatusServiceUnavailable}

\* ------------------------------------------------------------------ claims

\* C1: when every request to a log meets a transport error, the call ends
\* with exactly N+1 requests to that log and N sleeps, alternating
\* post, sleep, ..., post (no sleep after the last request), and returns an
\* error; before that, never more than N+1 requests and N sleeps.
C1_TransportRetries ==
  (i >= 1 /\ onlyTransport) =>
    /\ Posts(i) <= N + 1
    /\ Sleeps(i) <= N
    /\ ~done
    /\ pc \in {"afterLoop", "returned"} =>
         /\ Posts(i) = N + 1
         /\ Sleeps(i) = N
         /\ Alternates(EventsOf(i))
    /\ Returned => ret = <<"Unable to submit certificate">>

C1_Witness ==
  /\ Returned /\ i = 2 /\ onlyTransport /\ wire.kind = "doErr"
  /\ N = MaxRetries /\ Posts(i) = N + 1 /\ Sleeps(i) = N /\ ret # nil

\* C2: after a 408 or 503 whose Retry-After parses as s seconds, with retry
\* budget left, the sleep before the next request lasts s seconds.
C2_RetryAfterHonoured ==
  (pc = "sleep" /\ IsRetryableStatus(resp.StatusCode)
     /\ resp.RetryAfter # <<>> /\ ~Atoi(resp.RetryAfter).err)
    => sleeping = Atoi(resp.RetryAfter).val

\* C3: after a 408 or 503 whose Retry-After is absent or does not parse,
\* with retry budget left, the sleep before the next request is the
\* configured backoff.
C3_DefaultBackoff ==
  (pc = "sleep" /\ IsRetryableStatus(resp.StatusCode)
     /\ (resp.RetryAfter = <<>> \/ Atoi(resp.RetryAfter).err))
    => sleeping = CT.SubmissionBackoff

\* C4 as stated: after a response whose status is neither 200, 408 nor 503,
\* whatever its body, the log is given up at once: no sleep, no further
\* request, an error is returned.
C4_Original ==
  (wire.kind = "resp"
     /\ wire.StatusCode \notin
          {StatusOK, StatusRequestTimeout, StatusServiceUnavailable})
    => /\ pc \in {"afterLoop", "returned"}
       /\ ~done
       /\ Returned => ret # nil /\ LastIsPostOf(i)

\* C4 amended: after a response whose status is neither 200, 408 nor 503
\* and whose body decodes as an SCT, the log is given up at once, whatever
\* retry budget is left: no sleep, no further request to this or a later
\* log, and an error is returned.
C4_UnexpectedStatusFatal ==
  (wire.kind = "resp" /\ wire.decoded
     /\ wire.StatusCode \notin
          {StatusOK, StatusRequestTimeout, StatusServiceUnavailable})
    => /\ pc \in {"afterLoop", "returned"}
       /\ ~done
       /\ Returned =>
            ret = <<"Unable to submit certificate">> /\ LastIsPostOf(i)

C4_Witness ==
  /\ Returned /\ wire.kind = "resp" /\ wire.decoded /\ wire.StatusCode = 451
  /\ N > 0 /\ Posts(i) = 1 /\ i < NumLogs /\ ret # nil

\* C5 as stated: after a response whose body does not decode as an SCT the
\* log is given up at once: no sleep, no further request, an error is
\* returned.
C5_Original ==
  (wire.kind = "resp" /\ ~wire.decoded)
    => /\ pc \in {"afterLoop", "returned"}
       /\ Returned => ret # nil /\ LastIsPostOf(i)

\* C5 amended: a response whose body does not decode as an SCT is handled
\* as a transport error: with retry budget left the request is repeated
\* after the configured backoff; with none left an error is returned
\* without a request to any later log.  CheckSignature is never reached
\* with it (done stays false).
C5_DecodeFailureRetried ==
  (wire.kind = "resp" /\ ~wire.decoded)
    => /\ ~done
       /\ err # nil
       /\ \/ pc = "sleep" /\ Posts(i) <= N
               /\ sleeping = CT.SubmissionBackoff
          \/ pc = "afterLoop" /\ Posts(i) = N + 1
          \/ Returned /\ Posts(i) = N + 1 /\ LastIsPostOf(i)
               /\ ret = <<"Unable to submit certificate">>

C5_Witness ==
  /\ Returned /\ wire.kind = "resp" /\ ~wire.decoded
  /\ wire.StatusCode = StatusOK
  /\ N > 0 /\ Posts(i) = N + 1 /\ Sleeps(i) = N /\ i < NumLogs /\ ret # nil

\* C6: requests go to the logs in configured order, one log at a time; a
\* log gets a request only after every earlier log succeeded (200, SCT
\* decoded, signature accepted), and once a log has failed an error is
\* returned and no later log gets a request.
C6_InOrderStopAtFailure ==
  /\ \A j \in 1..Len(trace) :
       /\ trace[j].log \in 1..i
       /\ trace[j].uri = CT.Logs[trace[j].log]
       /\ j = 1 => trace[j].log = 1 /\ trace[j].op = "post"
       /\ j > 1 =>
            \/ trace[j].log = trace[j - 1].log
            \/ /\ trace[j].log = trace[j - 1].log + 1
               /\ trace[j].op = "post"
               /\ trace[j - 1].op = "post"
  /\ \A k \in 1..NumLogs :
       /\ (k < i \/ (k = i /\ pc = "range")) => k \in accepted
       /\ k > i => Posts(k) = 0
       /\ (k = i /\ k \in accepted) => pc \in {"afterLoop", "range", "returned"}
  /\ Failed => i >= 1 /\ i \notin accepted /\ LastIsPostOf(i)

C6_Witness ==
  /\ Failed /\ NumLogs = 2 /\ i = 1 /\ Posts(1) >= 1 /\ Posts(2) = 0
  /\ wire.kind = "resp" /\ wire.StatusCode = 451

\* C7: the call returns nil exactly when every configured log answered, in
\* one of at most N+1 requests, 200 with a decodable SCT that CheckSignature
\* accepts; otherwise it returns the error of the first log that failed.
C7_SuccessIffAllAccepted ==
  /\ \A k \in 1..NumLogs : Posts(k) <= N + 1
  /\ Returned =>
       /\ ret = nil <=> accepted = 1..NumLogs
       /\ ret # nil =>
            /\ i \in 1..NumLogs
            /\ accepted = 1..(i - 1)
            /\ \/ ret = <<"Unable to submit certificate">> /\ ~done
               \/ ret = wire.sig /\ done

C7_Witness ==
  /\ Returned /\ ret = nil /\ NumLogs = 2 /\ accepted = {1, 2}
  /\ Posts(1) > 1 /\ Posts(2) > 1

\* C8: a retryable failure (transport error, 408 or 503) is the last thing
\* a log met when the loop is left only after N+1 requests to that log,
\* whatever mix of transport errors and 408/503 came before.
C8_RetryableOnlyWhenExhausted ==
  (pc \in {"afterLoop", "returned"} /\ i >= 1 /\ RetryableWire)
    => /\ Posts(i) = N + 1
       /\ Sleeps(i) = N
       /\ ~done
       /\ Returned => ret = <<"Unable to submit certificate">>

C8_Witness ==
  /\ Failed /\ N = 2 /\ ~onlyTransport /\ wire.kind = "readErr"
  /\ Posts(i) = 3

\* C9: with no configuration or an empty log list the call sends no
\* request, sleeps never and returns nil.
C9_NoLogsNoOp ==
  NumLogs = 0 =>
    /\ trace = <<>>
    /\ pc \in {"start", "range", "returned"}
    /\ Returned => ret = nil

C9_Witness == Returned /\ Configured /\ NumLogs = 0 /\ ret = nil

\* C10: after a 200 whose SCT decodes but is rejected by CheckSignature the
\* call returns that error at once: no sleep, no further request to this
\* log whatever budget is left, and no request to a later log.
C10_BadSignatureFatal ==
  (wire.kind = "resp" /\ wire.StatusCode = StatusOK /\ wire.decoded
     /\ wire.sig # nil)
    => /\ done
       /\ pc \in {"afterLoop", "returned"}
       /\ Returned => ret = wire.sig /\ LastIsPostOf(i)

C10_Witness ==
  /\ Returned /\ wire.kind = "resp" /\ wire.StatusCode = StatusOK
  /\ wire.decoded /\ wire.sig = <<"Trailing garbage after signature">>
  /\ ret = wire.sig /\ N > 0 /\ Posts(i) = 1 /\ i < NumLogs

\* C11 as stated: a signature whose first byte is not the SHA-256 tag or
\* whose second byte is not the ECDSA tag is refused as an unsupported
\* algorithm, however many bytes it has.
C11_Original ==
  (pc = "sigDone"
     /\ \/ Len(sct.Signature) >= 1 /\ sct.Signature[1] # sctHashSHA256
        \/ Len(sct.Signature) >= 2 /\ sct.Signature[2] # sctSigECDSA)
    => ret \in {<<"Unsupported SCT hash function">>,
                <<"Unsupported SCT signature algorithm">>}

\* C11 amended: a signature of at least 4 bytes whose first byte is not the
\* SHA-256 tag or whose second byte is not the ECDSA tag is refused as an
\* unsupported algorithm (the hash tag is looked at first), whatever the
\* bytes after the tags; a signature of fewer than 4 bytes is refused as
\* truncated whatever its tags.
C11_UnsupportedAlgorithm ==
  pc = "sigDone" =>
    /\ (Len(sct.Signature) >= 4 /\ sct.Signature[1] # sctHashSHA256)
         => ret = <<"Unsupported SCT hash function">>
    /\ (Len(sct.Signature) >= 4 /\ sct.Signature[1] = sctHashSHA256
          /\ sct.Signature[2] # sctSigECDSA)
         => ret = <<"Unsupported SCT signature algorithm">>
    /\ Len(sct.Signature) < 4 => ret = <<"SCT signature is truncated">>

C11_Witness ==
  /\ pc = "sigDone"
  /\ Len(sct.Signature) > 4
  /\ sct.Signature[1] = sctHashSHA256
  /\ sct.Signature[2] = 4
  /\ SubSeq(sct.Signature, 5, Len(sct.Signature)) \in ParsableDER
  /\ ret = <<"Unsupported SCT signature algorithm">>

\* C12: CheckSignature returns nil exactly for a signature of at least 4
\* bytes with the two tags and, from offset 4, one parsable DER (R, S) with
\* nothing after it; the bytes at offsets 2 and 3 do not change the result;
\* fewer than 4 bytes give the truncated error, and a valid signature with
\* one more byte gives the trailing-garbage error.
C12_ValidExactly ==
  pc = "sigDone" =>
    LET g == sct.Signature
        valid == /\ Len(g) >= 4
                 /\ g[1] = sctHashSHA256
                 /\ g[2] = sctSigECDSA
                 /\ SubSeq(g, 5, Len(g)) \in ParsableDER
    IN /\ ret = nil <=> valid
       /\ Len(g) < 4 => ret = <<"SCT signature is truncated">>
       /\ Len(g) >= 4 =>
            \A l \in LenPairs :
              CheckSignature([sct EXCEPT !.Signature =
                                [g EXCEPT ![3] = l[1], ![4] = l[2]]]) = ret
       /\ valid =>
            CheckSignature([sct EXCEPT !.Signature = g \o <<0>>])
              = <<"Trailing garbage after signature">>
       /\ (Len(g) > 4 /\ g[1] = sctHashSHA256 /\ g[2] = sctSigECDSA
             /\ SubSeq(g, 5, Len(g) - 1) \in ParsableDER)
            => ret = <<"Trailing garbage after signature">>

C12_Witness ==
  /\ pc = "sigDone"
  /\ ret = nil
  /\ sct.Signature[3] = 255
  /\ SubSeq(sct.Signature, 5, Len(sct.Signature)) = DERSeq(<<0, 128>>, <<128>>, <<>>)

\* C13: the payload has exactly two chain entries, the certificate then
\* the issuer, each decoding from base64 to the original bytes, and every
\* request to every log carries that same payload.
C13_PayloadRoundTrip ==
  (Configured /\ pc # "start") =>
    /\ Len(jsonSubmission.chain) = 2
    /\ DecodeString(jsonSubmission.chain[1]) = [bytes |-> cert, err |-> FALSE]
    /\ DecodeString(jsonSubmission.chain[2])
         = [bytes |-> CT.IssuerDER, err |-> FALSE]
    /\ \A j \in 1..Len(trace) :
         trace[j].op = "post" => trace[j].data = jsonSubmission

C13_Witness ==
  /\ Returned /\ ret = nil
  /\ Len(cert) = 2 /\ Len(CT.IssuerDER) = 1
  /\ Posts(1) = 2 /\ Posts(2) = 2

\* C14: no step of SubmitToCT changes the shared configuration (log list,
\* retry count, backoff, issuer bytes).
C14_ConfigUnchanged == [][CT' = CT]_vars

C14_Witness ==
  /\ Returned /\ ret = nil /\ NumLogs = 2
  /\ Sleeps(1) > 0 /\ Sleeps(2) > 0

\* C15: after a request that gave no usable response (request build,
\* network, body read or body decode error), with retry budget left, the
\* sleep is the configured backoff, whatever the status and the Retry-After
\* header of the response.
C15_TransportBackoff ==
  (pc = "sleep"
     /\ (wire.kind \in TransportKinds \/ (wire.kind = "resp" /\ ~wire.decoded)))
    => sleeping = CT.SubmissionBackoff

C15_Witness ==
  /\ pc = "sleep" /\ wire.kind = "resp" /\ ~wire.decoded
  /\ wire.StatusCode = StatusServiceUnavailable
  /\ wire.RetryAfter = <<"5">>
  /\ sleeping = CT.SubmissionBackoff

\* C16: every call returns, after at most (number of logs) x (N+1)
\* requests, whatever the logs answer.
C16_Terminates ==
  /\ [](TotalPosts <= NumLogs * (N + 1))
  /\ <>Returned

C16_Witness ==
  /\ Returned /\ NumLogs = 2 /\ N = MaxRetries
  /\ TotalPosts = NumLogs * (N + 1)

\* C17: a configuration whose backoff string is no duration gives an error
\* and no instance; no configuration gives an instance whose SubmitToCT
\* sends nothing and returns nil; a backoff string that is a duration gives
\* an instance with that backoff and with the issuer bytes passed in.
C17_Constructor ==
  pc # "new" =>
    /\ args.ctConfig = NoCT =>
         /\ pc # "newFailed"
         /\ CT = NoCT
         /\ trace = <<>>
         /\ Returned => ret = nil
    /\ (args.ctConfig # NoCT
          /\ args.ctConfig.SubmissionBackoffString \in BadDurations) =>
         /\ pc = "newFailed"
         /\ ret # nil
         /\ CT = NoCT
    /\ \A g \in GoodDurations :
         (args.ctConfig # NoCT
            /\ args.ctConfig.SubmissionBackoffString = g.str) =>
           /\ pc # "newFailed"
           /\ CT.SubmissionBackoff = g.secs
           /\ CT.IssuerDER = args.issuerDER
           /\ CT.Logs = args.ctConfig.Logs
           /\ CT.SubmissionRetries = args.ctConfig.SubmissionRetries

C17_Witness ==
  /\ Returned /\ ret = nil /\ Configured /\ NumLogs = 1
  /\ CT.SubmissionBackoff = 65 /\ CT.IssuerDER = <<48, 2, 255>>
  /\ Sleeps(1) = 1

\* The bytes a well-formed sample string stands for.
BytesOf(w) ==
  IF w = LooseB64 THEN <<65>>
  ELSE CHOOSE b \in ByteSamples : EncodeToString(b) = w

\* C18: decoding fails exactly when the JSON shape does not fit or one of
\* the three base64 fields is malformed, the error naming the first
\* malformed one of log id, signature, extensions; on success version and
\* timestamp are copied and the three byte fields are the base64 decodings.
C18_DecodeSCT ==
  pc = "decoded" =>
    LET d == args.data
        obj == d.json = "object"
        badId == d.raw.LogID \in MalformedB64
        badSig == d.raw.Signature \in MalformedB64
        badExt == d.raw.Extensions \in MalformedB64
    IN /\ err = nil <=> (obj /\ ~badId /\ ~badSig /\ ~badExt)
       /\ ~obj => err = <<"Failed to unmarshal SCT reciept">>
       /\ (obj /\ badId) => err = <<"Failed to decode log ID">>
       /\ (obj /\ ~badId /\ badSig) => err = <<"Failed to decode SCT signature">>
       /\ (obj /\ ~badId /\ ~badSig /\ badExt)
            => err = <<"Failed to decode SCT extensions">>
       /\ err = nil =>
            sct = [SCTVersion |-> d.raw.Version,
                   LogID |-> BytesOf(d.raw.LogID),
                   Timestamp |-> d.raw.Timestamp,
                   Extensions |-> BytesOf(d.raw.Extensions),
                   Signature |-> BytesOf(d.raw.Signature)]

C18_Witness ==
  /\ pc = "decoded" /\ err = nil
  /\ sct.SCTVersion = 1 /\ sct.Timestamp = 5
  /\ sct.LogID = <<250, 251, 252, 253>>
  /\ sct.Signature = <<255, 0>>
  /\ sct.Extensions = <<7>>

\* The loop of log k has been left.
Ended(k) == k < i \/ (k = i /\ pc \in {"afterLoop", "range", "returned"})

\* Log k got a status 200 with a decodable body (done, line 177).
Succeeded(k) == k < i \/ (k = i /\ done)

\* C19: every log that was reached gets at least 1 and at most N+1
\* attempts; a log that ended after N+1 attempts or in Succeeded was waited
\* for once less than it was attempted; the retry counter counts the
\* waits of the current log only, so it starts from 0 for each log.
C19_AttemptsPerLog ==
  Configured =>
    \A k \in 1..NumLogs :
      /\ Posts(k) <= N + 1
      /\ k > i => Posts(k) = 0 /\ Sleeps(k) = 0
      /\ Ended(k) =>
           /\ Posts(k) >= 1
           /\ (Posts(k) = N + 1 \/ Succeeded(k)) => Sleeps(k) = Posts(k) - 1
      /\ (k = i /\ pc \in {"loop", "afterLoop"}) => retries = Sleeps(k)
      /\ (k = i /\ pc = "sleep") => retries = Sleeps(k) + 1
      /\ (k = i /\ pc = "loop" /\ Posts(k) = 0) => retries = 0

C19_Witness ==
  /\ Returned /\ ret = nil /\ NumLogs = 2 /\ N >= 1
  /\ Posts(1) = N + 1 /\ Sleeps(1) = N
  /\ Posts(2) = N + 1 /\ Sleeps(2) = N

\* C20: the SCT that CheckSignature validates for a log is the one decoded
\* from the body of the final status-200 response of that log, and the
\* outcome is what CheckSignature says of that SCT alone, whatever an
\* earlier response of the same log or a previous log left behind.
C20_FinalSCTValidated ==
  /\ (pc = "afterLoop" /\ done) =>
       /\ wire.kind = "resp" /\ wire.StatusCode = StatusOK /\ wire.decoded
       /\ sct = wire.sct
       /\ CheckSignature(sct) = wire.sig
  /\ (pc = "range" /\ i >= 1) => done /\ wire.sig = nil /\ sct = wire.sct
  /\ (Returned /\ i >= 1 /\ done) => ret = wire.sig /\ sct = wire.sct

C20_Witness ==
  /\ pc = "range" /\ i = 2 /\ wire.stale /\ retries >= 1
  /\ wire.sig = nil /\ sct = wire.sct /\ accepted = {1, 2}

====
